---- MODULE Spec2Model ----
(***************************************************************************)
(* Model of the payment engine of src/payment_engine/src/main.rs.          *)
(*                                                                         *)
(* The engine replays a stream of parsed CSV records against two hash      *)
(* maps: clients (client_id -> (available, held, total, frozen)) and       *)
(* transaction_history (transaction_id -> (client_id, amount, disputed)).  *)
(* One step of the model is one iteration of the `for record` loop of      *)
(* main: the frozen-account check followed by the arm of the match on the  *)
(* transaction type.  The body of the loop is the operator process_record; *)
(* the properties apply it to every record in every reachable state.       *)
(*                                                                         *)
(* Amounts are f64 in the program; here they are exact scaled integers.    *)
(* Rounding, infinities and NaN of binary floating point are outside the   *)
(* model.                                                                  *)
(***************************************************************************)
EXTENDS Integers, FiniteSets, Sequences, TLC

\* ---------------------------------------------------------------- bounds
\* Number of distinct client ids that occur in the input.
MaxClient == 2
\* Number of distinct transaction ids that occur in the input.
MaxTx == 2
\* Amounts of the input records range over 0 .. MaxAmount (0 is also the
\* value from_record gives an empty amount field).
MaxAmount == 1
\* Number of records of the input stream.
MaxRecords == 4

ClientIds == 1..MaxClient
TransactionIds == 1..MaxTx
Amounts == 0..MaxAmount

\* The tokens of the type column: the five the match knows, and one it
\* does not.
TransactionTypes ==
    {"deposit", "withdrawal", "dispute", "resolve", "chargeback", "transfer"}

\* struct Transaction: a record that from_record accepted.
Transaction ==
    [transaction_type : TransactionTypes,
     client_id : ClientIds,
     transaction_id : TransactionIds,
     amount : Amounts]

VARIABLES
    clients,              \* HashMap client_id -> account tuple
    transaction_history,  \* HashMap transaction_id -> transaction tuple
    processed             \* number of records read so far

vars == <<clients, transaction_history, processed>>

\* ------------------------------------------------------------ hash maps
EmptyMap == [k \in {} |-> 0]

contains_key(map, k) == k \in DOMAIN map

\* HashMap::insert: adds the key or overwrites its value.
insert(map, k, v) ==
    [x \in (DOMAIN map) \cup {k} |-> IF x = k THEN v ELSE map[x]]

\* The tuple entry.or_insert((0.0, 0.0, 0.0, false)) puts in for a new key.
NewAccount == [available |-> 0, held |-> 0, total |-> 0, frozen |-> FALSE]

\* clients.entry(id).or_insert(NewAccount): the map with the key present.
or_insert(map, k) ==
    IF contains_key(map, k) THEN map ELSE insert(map, k, NewAccount)

\* ------------------------------------------------- Transaction methods
\* Variant of deposit_or_withdrawal in which a withdrawal forgets
\* `*total -= self.amount`.
deposit_or_withdrawal_stale_total(self, cl, action) ==
    LET m == or_insert(cl, self.client_id)
        a == m[self.client_id]
    IN  IF action = "deposit"
        THEN insert(m, self.client_id,
                    [a EXCEPT !.available = @ + self.amount,
                              !.total = @ + self.amount])
        ELSE IF action = "withdrawal"
        THEN insert(m, self.client_id,
                    [a EXCEPT !.available = @ - self.amount])
        ELSE m

\* Variant of deposit_or_withdrawal in which a withdrawal of more than the
\* available funds leaves the balances alone.
deposit_or_withdrawal_sufficient_funds(self, cl, action) ==
    LET m == or_insert(cl, self.client_id)
        a == m[self.client_id]
    IN  IF action = "deposit"
        THEN insert(m, self.client_id,
                    [a EXCEPT !.available = @ + self.amount,
                              !.total = @ + self.amount])
        ELSE IF action = "withdrawal" /\ self.amount <= a.available
        THEN insert(m, self.client_id,
                    [a EXCEPT !.available = @ - self.amount,
                              !.total = @ - self.amount])
        ELSE m

deposit_or_withdrawal(self, cl, action) ==
    LET m == or_insert(cl, self.client_id)
        a == m[self.client_id]
    IN  IF action = "deposit"
        THEN insert(m, self.client_id,
                    [a EXCEPT !.available = @ + self.amount,
                              !.total = @ + self.amount])
        ELSE IF action = "withdrawal"
        THEN insert(m, self.client_id,
                    [a EXCEPT !.available = @ - self.amount,
                              !.total = @ - self.amount])
        ELSE m

\* Variant of dispute that holds the amount column of the dispute record
\* instead of the amount recorded for the disputed transaction.
dispute_event_amount(self, cl, history) ==
    LET m == or_insert(cl, self.client_id)
        a == m[self.client_id]
        amount == self.amount
        available == a.available - amount
        held == a.held + amount
    IN  insert(m, self.client_id,
               [a EXCEPT !.available = available,
                         !.held = held,
                         !.total = available + held])

dispute(self, cl, history) ==
    LET m == or_insert(cl, self.client_id)
        a == m[self.client_id]
        amount == history[self.transaction_id].amount
        available == a.available - amount
        held == a.held + amount
    IN  insert(m, self.client_id,
               [a EXCEPT !.available = available,
                         !.held = held,
                         !.total = available + held])

\* Variant of resolve_or_chargeback in which a chargeback forgets
\* `*frozen = true`.
resolve_or_chargeback_no_freeze(self, cl, history, action) ==
    LET m == or_insert(cl, self.client_id)
        a == m[self.client_id]
        client_id == history[self.transaction_id].client_id
        amount == history[self.transaction_id].amount
    IN  IF client_id # self.client_id
        THEN m
        ELSE LET b == IF action = "resolve"
                      THEN [a EXCEPT !.available = @ + amount,
                                     !.held = @ - amount]
                      ELSE IF action = "chargeback"
                      THEN [a EXCEPT !.held = @ - amount]
                      ELSE a
             IN  insert(m, self.client_id,
                        [b EXCEPT !.total = b.available + b.held])

\* Variant of resolve_or_chargeback that forgets
\* `*total = *available + *held`.
resolve_or_chargeback_stale_total(self, cl, history, action) ==
    LET m == or_insert(cl, self.client_id)
        a == m[self.client_id]
        client_id == history[self.transaction_id].client_id
        amount == history[self.transaction_id].amount
    IN  IF client_id # self.client_id
        THEN m
        ELSE LET b == IF action = "resolve"
                      THEN [a EXCEPT !.available = @ + amount,
                                     !.held = @ - amount]
                      ELSE IF action = "chargeback"
                      THEN [a EXCEPT !.held = @ - amount,
                                     !.frozen = TRUE]
                      ELSE a
             IN  insert(m, self.client_id, b)

\* Variant of resolve_or_chargeback that works on the account of the
\* recorded owner of the transaction rather than on that of the record's
\* client.
resolve_or_chargeback_owner_account(self, cl, history, action) ==
    LET client_id == history[self.transaction_id].client_id
        amount == history[self.transaction_id].amount
        m == or_insert(cl, client_id)
        a == m[client_id]
        b == IF action = "resolve"
             THEN [a EXCEPT !.available = @ + amount,
                            !.held = @ - amount]
             ELSE IF action = "chargeback"
             THEN [a EXCEPT !.held = @ - amount,
                            !.frozen = TRUE]
             ELSE a
    IN  insert(m, client_id, [b EXCEPT !.total = b.available + b.held])

resolve_or_chargeback(self, cl, history, action) ==
    LET m == or_insert(cl, self.client_id)
        a == m[self.client_id]
        client_id == history[self.transaction_id].client_id
        amount == history[self.transaction_id].amount
    IN  IF client_id # self.client_id
        THEN m
        ELSE LET b == IF action = "resolve"
                      THEN [a EXCEPT !.available = @ + amount,
                                     !.held = @ - amount]
                      ELSE IF action = "chargeback"
                      THEN [a EXCEPT !.held = @ - amount,
                                     !.frozen = TRUE]
                      ELSE a
             IN  insert(m, self.client_id,
                        [b EXCEPT !.total = b.available + b.held])

\* ----------------------------------------------------- main: one record
\* What one iteration of the loop leaves behind: the two tables and the
\* eprintln! it reached ("none" when it printed nothing).
Outcome(cl, history, d) ==
    [clients |-> cl, transaction_history |-> history, diagnostic |-> d]

\* Variant of the frozen-account check that reads the flag as false for
\* every client.
current_client_lock_state_never(cl, client_id) ==
    FALSE

\* The frozen-account check made for every record before the match.
current_client_lock_state(cl, client_id) ==
    IF contains_key(cl, client_id) THEN cl[client_id].frozen ELSE FALSE

\* Variant of the deposit and withdrawal arm without the duplicate check.
duplicate_transaction_unchecked(history, transaction_id) ==
    FALSE

\* transaction_history.contains_key(&transaction_id) of the deposit and
\* withdrawal arm.
duplicate_transaction(history, transaction_id) ==
    contains_key(history, transaction_id)

\* Variant of the dispute arm and the resolve and chargeback arm without
\* the check that the transaction is in the history.
transaction_not_found_unchecked(history, transaction_id) ==
    FALSE

\* !transaction_history.contains_key(current_transaction_id) of the dispute
\* arm and of the resolve and chargeback arm.
transaction_not_found(history, transaction_id) ==
    ~contains_key(history, transaction_id)

\* Variant of the dispute arm without the owner check.
client_id_mismatch_unchecked(history, t) ==
    FALSE

\* transaction_history.get(id).unwrap().0 != *current_client_id
client_id_mismatch(history, t) ==
    history[t.transaction_id].client_id # t.client_id

\* Variant of the resolve and chargeback arm without the disputed check.
transaction_not_disputed_unchecked(history, transaction_id) ==
    FALSE

\* !transaction_history.get(current_transaction_id).unwrap().2
transaction_not_disputed(history, transaction_id) ==
    ~history[transaction_id].disputed

\* The "deposit" | "withdrawal" arm.
deposit_or_withdrawal_arm(t, cl, history) ==
    IF duplicate_transaction(history, t.transaction_id)
    THEN Outcome(cl, history, "duplicate transaction")
    ELSE Outcome(deposit_or_withdrawal(t, cl, t.transaction_type),
                 insert(history, t.transaction_id,
                        [client_id |-> t.client_id,
                         amount |-> t.amount,
                         disputed |-> FALSE]),
                 "none")

\* Variant of the dispute arm that takes the client's entry, creating the
\* account, before it looks the transaction up.
dispute_arm_entry_first(t, cl, history) ==
    IF transaction_not_found(history, t.transaction_id)
    THEN Outcome(or_insert(cl, t.client_id), history, "not found")
    ELSE IF client_id_mismatch(history, t)
    THEN Outcome(or_insert(cl, t.client_id), history, "client mismatch")
    ELSE LET disputed_amount == history[t.transaction_id].amount
         IN  Outcome(dispute(t, cl, history),
                     insert(history, t.transaction_id,
                            [client_id |-> t.client_id,
                             amount |-> disputed_amount,
                             disputed |-> TRUE]),
                     "none")

\* The "dispute" arm.
dispute_arm(t, cl, history) ==
    IF transaction_not_found(history, t.transaction_id)
    THEN Outcome(cl, history, "not found")
    ELSE IF client_id_mismatch(history, t)
    THEN Outcome(cl, history, "client mismatch")
    ELSE LET disputed_amount == history[t.transaction_id].amount
         IN  Outcome(dispute(t, cl, history),
                     insert(history, t.transaction_id,
                            [client_id |-> t.client_id,
                             amount |-> disputed_amount,
                             disputed |-> TRUE]),
                     "none")

\* Variant of the resolve and chargeback arm that, instead of re-inserting
\* the record, removes it from the history.
resolve_or_chargeback_arm_remove(t, cl, history) ==
    IF transaction_not_found(history, t.transaction_id)
    THEN Outcome(cl, history, "not found")
    ELSE IF transaction_not_disputed(history, t.transaction_id)
    THEN Outcome(cl, history, "not disputed")
    ELSE Outcome(resolve_or_chargeback(t, cl, history, t.transaction_type),
                 [id \in DOMAIN history \ {t.transaction_id}
                      |-> history[id]],
                 IF history[t.transaction_id].client_id # t.client_id
                 THEN "client mismatch in resolve_or_chargeback"
                 ELSE "none")

\* The "resolve" | "chargeback" arm.  The record is re-inserted after
\* resolve_or_chargeback returns, whether or not that call found the
\* client to match.
resolve_or_chargeback_arm(t, cl, history) ==
    IF transaction_not_found(history, t.transaction_id)
    THEN Outcome(cl, history, "not found")
    ELSE IF transaction_not_disputed(history, t.transaction_id)
    THEN Outcome(cl, history, "not disputed")
    ELSE Outcome(resolve_or_chargeback(t, cl, history, t.transaction_type),
                 insert(history, t.transaction_id,
                        [client_id |-> t.client_id,
                         amount |-> t.amount,
                         disputed |-> FALSE]),
                 IF history[t.transaction_id].client_id # t.client_id
                 THEN "client mismatch in resolve_or_chargeback"
                 ELSE "none")

\* The body of the loop for one accepted record.
process_record(t, cl, history) ==
    IF current_client_lock_state(cl, t.client_id)
    THEN Outcome(cl, history, "frozen account")
    ELSE IF t.transaction_type \in {"deposit", "withdrawal"}
    THEN deposit_or_withdrawal_arm(t, cl, history)
    ELSE IF t.transaction_type = "dispute"
    THEN dispute_arm(t, cl, history)
    ELSE IF t.transaction_type \in {"resolve", "chargeback"}
    THEN resolve_or_chargeback_arm(t, cl, history)
    ELSE Outcome(cl, history, "unknown type")

\* transaction_history.get(id).unwrap(): Option::unwrap panics on None,
\* that is when the key is not in the map.
unwrap_panics(history, transaction_id) ==
    ~contains_key(history, transaction_id)

\* Whether the loop body reaches, for record t, an unwrap that panics.
\* The unwraps are those of the dispute arm (owner check and
\* disputed_amount) and of Transaction::dispute, reached once the
\* unknown-id check has let the record through, and those of the resolve
\* and chargeback arm (disputed check) and of resolve_or_chargeback,
\* likewise.  All of them look up the record's transaction_id.
record_panics(t, cl, history) ==
    IF current_client_lock_state(cl, t.client_id)
    THEN FALSE
    ELSE IF t.transaction_type \in {"dispute", "resolve", "chargeback"}
    THEN IF transaction_not_found(history, t.transaction_id)
         THEN FALSE
         ELSE unwrap_panics(history, t.transaction_id)
    ELSE FALSE

\* One iteration: the next record of the stream is t.
Handle(t) ==
    /\ processed < MaxRecords
    /\ processed' = processed + 1
    /\ LET r == process_record(t, clients, transaction_history)
       IN  /\ clients' = r.clients
           /\ transaction_history' = r.transaction_history

\* A record for a frozen account.
FrozenAccount ==
    \E t \in Transaction :
        /\ current_client_lock_state(clients, t.client_id)
        /\ Handle(t)

DepositOrWithdrawal ==
    \E t \in Transaction :
        /\ ~current_client_lock_state(clients, t.client_id)
        /\ t.transaction_type \in {"deposit", "withdrawal"}
        /\ Handle(t)

Dispute ==
    \E t \in Transaction :
        /\ ~current_client_lock_state(clients, t.client_id)
        /\ t.transaction_type = "dispute"
        /\ Handle(t)

ResolveOrChargeback ==
    \E t \in Transaction :
        /\ ~current_client_lock_state(clients, t.client_id)
        /\ t.transaction_type \in {"resolve", "chargeback"}
        /\ Handle(t)

UnknownType ==
    \E t \in Transaction :
        /\ ~current_client_lock_state(clients, t.client_id)
        /\ t.transaction_type \notin
               {"deposit", "withdrawal", "dispute", "resolve", "chargeback"}
        /\ Handle(t)

Init ==
    /\ clients = EmptyMap
    /\ transaction_history = EmptyMap
    /\ processed = 0

Next ==
    \/ FrozenAccount
    \/ DepositOrWithdrawal
    \/ Dispute
    \/ ResolveOrChargeback
    \/ UnknownType

Spec == Init /\ [][Next]_vars

\* ============================================================ properties
\* The outcome of handling record t in the current state.
After(t) == process_record(t, clients, transaction_history)

\* Handling record t in the current state leaves both tables as they are.
NothingChanges(t) ==
    /\ After(t).clients = clients
    /\ After(t).transaction_history = transaction_history

\* The account of record t's client is frozen.
IsFrozen(t) ==
    /\ t.client_id \in DOMAIN clients
    /\ clients[t.client_id].frozen

\* Record t names a transaction that is in the history.
IsRecorded(t) == t.transaction_id \in DOMAIN transaction_history

\* The history entry record t names.
Recorded(t) == transaction_history[t.transaction_id]

\* The records of one type, or of one of a set of types.
RecordsOfType(types) == {t \in Transaction : t.transaction_type \in types}
DisputeRecords == RecordsOfType({"dispute"})
ResolveOrChargebackRecords == RecordsOfType({"resolve", "chargeback"})
DepositOrWithdrawalRecords == RecordsOfType({"deposit", "withdrawal"})

\* There is a next record in the stream: the loop runs its body once more.
\* What a claim says about the handling of a record is stated for the
\* states in which the loop has a record to handle.
MoreRecords == processed < MaxRecords

\* ---------------------------------------------------------------- C1
\* C1: after any sequence of events every account in the accounts table
\* satisfies total = available + held.
C1_TotalIsAvailablePlusHeld ==
    \A c \in DOMAIN clients :
        clients[c].total = clients[c].available + clients[c].held

\* An account that holds disputed funds, has a non-zero available balance
\* and a non-zero total, after a deposit, a withdrawal and a dispute.
C1_Witness ==
    \E c \in DOMAIN clients :
        /\ clients[c].held # 0
        /\ clients[c].available # 0
        /\ clients[c].total # 0
        /\ clients[c].total # clients[c].held
        /\ processed >= 3

\* ---------------------------------------------------------------- C2
\* C2: a dispute of a transaction whose disputed flag is already true is
\* rejected: accounts and the transaction record are left unchanged.
C2_DisputeOfDisputedRejected ==
    \A t \in DisputeRecords :
        (/\ IsRecorded(t)
         /\ Recorded(t).disputed)
        => NothingChanges(t)

\* ---------------------------------------------------------------- C3
\* C3: a resolve or chargeback whose client_id differs from the owner of
\* the referenced, currently disputed transaction changes neither the
\* accounts table (keys included) nor the transaction record.
C3_ForeignResolveOrChargebackRejected ==
    \A t \in ResolveOrChargebackRecords :
        (/\ IsRecorded(t)
         /\ Recorded(t).disputed
         /\ Recorded(t).client_id # t.client_id)
        => NothingChanges(t)

\* ---------------------------------------------------------------- C4
\* Record t is a dispute, resolve or chargeback that names a recorded
\* transaction of its own client in the dispute state it needs.
ValidLifecycleRecord(t) ==
    /\ t.transaction_type \in {"dispute", "resolve", "chargeback"}
    /\ IsRecorded(t)
    /\ Recorded(t).client_id = t.client_id
    /\ Recorded(t).disputed = (t.transaction_type # "dispute")

\* C4 as stated: a dispute, resolve or chargeback that is valid in every
\* other respect is still applied when the account of its client is
\* locked (the disputed flag of the transaction flips).
C4_LifecycleAppliedWhenLocked ==
    \A t \in Transaction :
        (ValidLifecycleRecord(t) /\ IsFrozen(t))
        => After(t).transaction_history[t.transaction_id].disputed
               = (t.transaction_type = "dispute")

\* C4 as the code has it: a record of any type whose client's account is
\* locked is skipped, accounts and history unchanged; dispute, resolve and
\* chargeback are suppressed like deposit and withdrawal.
C4_LockedAccountSkipsEveryRecord ==
    MoreRecords =>
    \A t \in Transaction :
        IsFrozen(t) => NothingChanges(t)

\* An otherwise valid dispute, resolve or chargeback of a transaction with
\* a non-zero amount meets a locked account and is skipped.
C4_Witness ==
    \E t \in Transaction :
        /\ MoreRecords
        /\ ValidLifecycleRecord(t)
        /\ IsFrozen(t)
        /\ Recorded(t).amount # 0
        /\ After(t).diagnostic = "frozen account"

\* ---------------------------------------------------------------- C5
\* C5: once a transaction record exists its client_id and amount never
\* change under any later event.
C5_RecordOwnerAndAmountFixed ==
    \A t \in Transaction :
        \A id \in DOMAIN transaction_history :
            /\ id \in DOMAIN After(t).transaction_history
            /\ After(t).transaction_history[id].client_id
                   = transaction_history[id].client_id
            /\ After(t).transaction_history[id].amount
                   = transaction_history[id].amount

\* ---------------------------------------------------------------- C6
\* C6: a resolve or chargeback of a recorded transaction whose disputed
\* flag is false changes nothing, and a disputed flag only ever goes from
\* false to true under a dispute of that transaction and from true to
\* false under a resolve or chargeback of it.
C6_ResolveOrChargebackNeedsDispute ==
    MoreRecords =>
    \A t \in Transaction :
        LET after == After(t)
        IN  /\ (/\ t.transaction_type \in {"resolve", "chargeback"}
                /\ IsRecorded(t)
                /\ ~Recorded(t).disputed)
               => /\ after.clients = clients
                  /\ after.transaction_history = transaction_history
            /\ \A id \in DOMAIN transaction_history :
                   after.transaction_history[id].disputed
                       # transaction_history[id].disputed
                   => /\ id = t.transaction_id
                      /\ IF transaction_history[id].disputed
                         THEN t.transaction_type
                                  \in {"resolve", "chargeback"}
                         ELSE t.transaction_type = "dispute"

\* The owner of an undisputed transaction with a non-zero amount, whose
\* account is not locked, sends a resolve or a chargeback for it.
C6_Witness ==
    \E t \in Transaction :
        /\ MoreRecords
        /\ t.transaction_type \in {"resolve", "chargeback"}
        /\ IsRecorded(t)
        /\ ~Recorded(t).disputed
        /\ Recorded(t).client_id = t.client_id
        /\ Recorded(t).amount # 0
        /\ ~IsFrozen(t)
        /\ After(t).diagnostic = "not disputed"

\* ---------------------------------------------------------------- C7
\* C7: a deposit or withdrawal whose transaction_id is already in the
\* history is rejected: no balance changes, no account is created and the
\* recorded transaction keeps owner, amount and disputed flag.
C7_DuplicateRejected ==
    MoreRecords =>
    \A t \in DepositOrWithdrawalRecords :
        IsRecorded(t) => NothingChanges(t)

\* A duplicate with a non-zero amount from a client that has no account
\* and is not the recorded owner.
C7_Witness ==
    \E t \in Transaction :
        /\ MoreRecords
        /\ t.transaction_type \in {"deposit", "withdrawal"}
        /\ IsRecorded(t)
        /\ Recorded(t).client_id # t.client_id
        /\ t.amount # 0
        /\ t.client_id \notin DOMAIN clients
        /\ After(t).diagnostic = "duplicate transaction"

\* ---------------------------------------------------------------- C8
\* Record t is a chargeback by the owner of a disputed transaction whose
\* account exists and is not locked.
SuccessfulChargeback(t) ==
    /\ t.transaction_type = "chargeback"
    /\ IsRecorded(t)
    /\ Recorded(t).disputed
    /\ Recorded(t).client_id = t.client_id
    /\ t.client_id \in DOMAIN clients
    /\ ~IsFrozen(t)

\* C8: a successful chargeback reduces the owner's held by the recorded
\* amount, locks the account and clears the disputed flag; no record ever
\* releases a lock, and a deposit or withdrawal for a locked client changes
\* no balance and records no history entry.
C8_ChargebackLocksAccount ==
    MoreRecords =>
    \A t \in Transaction :
        LET after == After(t)
        IN  /\ SuccessfulChargeback(t)
               => /\ after.clients[t.client_id].held
                         = clients[t.client_id].held - Recorded(t).amount
                  /\ after.clients[t.client_id].frozen
                  /\ ~after.transaction_history[t.transaction_id].disputed
            /\ \A c \in DOMAIN clients :
                   clients[c].frozen
                   => /\ c \in DOMAIN after.clients
                      /\ after.clients[c].frozen
            /\ (/\ t.transaction_type \in {"deposit", "withdrawal"}
                /\ IsFrozen(t))
               => /\ after.clients = clients
                  /\ after.transaction_history = transaction_history

\* A deposit or withdrawal with a fresh transaction id and a non-zero
\* amount meets an account that a chargeback has locked.
C8_Witness ==
    \E t \in Transaction :
        /\ MoreRecords
        /\ t.transaction_type \in {"deposit", "withdrawal"}
        /\ ~IsRecorded(t)
        /\ t.amount # 0
        /\ IsFrozen(t)
        /\ \E id \in DOMAIN transaction_history :
               /\ transaction_history[id].client_id = t.client_id
               /\ ~transaction_history[id].disputed
        /\ After(t).diagnostic = "frozen account"

\* ---------------------------------------------------------------- C9
\* Record t is a dispute by the owner of an undisputed transaction whose
\* account exists and is not locked.
DisputeOfUndisputed(t) ==
    /\ t.transaction_type = "dispute"
    /\ IsRecorded(t)
    /\ ~Recorded(t).disputed
    /\ Recorded(t).client_id = t.client_id
    /\ t.client_id \in DOMAIN clients
    /\ ~IsFrozen(t)

\* The outcome of handling dispute t and then a resolve of the same
\* transaction by the same client that carries amount a.
AfterDisputeThenResolve(t, a) ==
    process_record([t EXCEPT !.transaction_type = "resolve", !.amount = a],
                   After(t).clients, After(t).transaction_history)

\* C9: a dispute of an undisputed transaction of an unlocked account
\* followed by a resolve from the owning client restores the account's
\* available, held and total to their values before the dispute and
\* leaves the transaction undisputed.
C9_DisputeResolveRoundTrip ==
    MoreRecords =>
    \A t \in DisputeRecords :
        DisputeOfUndisputed(t)
        => LET disputed == After(t)
           IN  \A a \in Amounts :
                   LET r == process_record(
                                [t EXCEPT !.transaction_type = "resolve",
                                          !.amount = a],
                                disputed.clients,
                                disputed.transaction_history)
                       before == clients[t.client_id]
                       after == r.clients[t.client_id]
                   IN  /\ after.available = before.available
                       /\ after.held = before.held
                       /\ after.total = before.total
                       /\ ~r.transaction_history[t.transaction_id].disputed

\* A dispute of a transaction with a non-zero amount that moves funds into
\* held, followed by a resolve that carries another amount and still
\* brings the account back.
C9_Witness ==
    \E t \in Transaction :
        /\ processed + 1 < MaxRecords
        /\ DisputeOfUndisputed(t)
        /\ Recorded(t).amount # 0
        /\ t.amount # Recorded(t).amount
        /\ After(t).diagnostic = "none"
        /\ After(t).clients[t.client_id] # clients[t.client_id]
        /\ \E a \in Amounts :
               /\ a # Recorded(t).amount
               /\ AfterDisputeThenResolve(t, a).diagnostic = "none"
               /\ AfterDisputeThenResolve(t, a).clients[t.client_id]
                      = clients[t.client_id]

\* --------------------------------------------------------------- C10
\* C10: a dispute whose transaction exists but whose client_id differs
\* from the recorded owner is skipped: accounts and history unchanged, no
\* account created for the mismatching client.
C10_ForeignDisputeSkipped ==
    MoreRecords =>
    \A t \in DisputeRecords :
        (/\ IsRecorded(t)
         /\ Recorded(t).client_id # t.client_id)
        => NothingChanges(t)

\* A dispute of a transaction with a non-zero amount from a client that
\* is not its owner, is not locked and has no account.
C10_Witness ==
    \E t \in Transaction :
        /\ MoreRecords
        /\ t.transaction_type = "dispute"
        /\ IsRecorded(t)
        /\ Recorded(t).client_id # t.client_id
        /\ Recorded(t).amount # 0
        /\ t.client_id \notin DOMAIN clients
        /\ After(t).diagnostic = "client mismatch"

\* --------------------------------------------------------------- C11
LifecycleRecords == RecordsOfType({"dispute", "resolve", "chargeback"})

\* C11: a dispute, resolve or chargeback that names a transaction_id that
\* is not in the history is skipped: no balance changes, no account is
\* created and no transaction record is created.
C11_UnknownReferenceSkipped ==
    MoreRecords =>
    \A t \in LifecycleRecords :
        ~IsRecorded(t)
        => LET after == After(t)
           IN  /\ after.clients = clients
               /\ DOMAIN after.clients = DOMAIN clients
               /\ after.transaction_history = transaction_history
               /\ t.transaction_id \notin DOMAIN after.transaction_history

\* A dispute, resolve or chargeback of an unknown transaction from a
\* client that has no account, while another transaction is on record.
C11_Witness ==
    \E t \in LifecycleRecords :
        /\ MoreRecords
        /\ ~IsRecorded(t)
        /\ transaction_history # EmptyMap
        /\ t.client_id \notin DOMAIN clients
        /\ After(t).diagnostic = "not found"

\* --------------------------------------------------------------- C12
\* C12: accounts are created only by deposit and withdrawal events: no
\* dispute, resolve, chargeback or unknown-type event adds a key to the
\* accounts table, and no event removes one.
C12_AccountsOnlyFromDepositOrWithdrawal ==
    \A t \in Transaction :
        LET after == After(t)
        IN  /\ DOMAIN clients \subseteq DOMAIN after.clients
            /\ t.transaction_type \notin {"deposit", "withdrawal"}
               => DOMAIN after.clients = DOMAIN clients

\* --------------------------------------------------------------- C13
\* Record t is invalid in the current state: a duplicate transaction id,
\* an unknown transaction reference, an owner mismatch, a dispute-state
\* mismatch, a locked target account or an unknown type.
Invalid(t) ==
    \/ IsFrozen(t)
    \/ t.transaction_type \notin
           {"deposit", "withdrawal", "dispute", "resolve", "chargeback"}
    \/ /\ t.transaction_type \in {"deposit", "withdrawal"}
       /\ IsRecorded(t)
    \/ /\ t.transaction_type \in {"dispute", "resolve", "chargeback"}
       /\ \/ ~IsRecorded(t)
          \/ Recorded(t).client_id # t.client_id
          \/ Recorded(t).disputed = (t.transaction_type = "dispute")

\* C13: a record that is invalid in the current state leaves accounts and
\* history as they are, so that replaying it any number of times changes
\* nothing and the records after it behave as if it had not been there.
C13_InvalidRecordChangesNothing ==
    \A t \in Transaction :
        Invalid(t)
        => LET once == After(t)
               twice == process_record(t, once.clients,
                                       once.transaction_history)
           IN  /\ once.clients = clients
               /\ once.transaction_history = transaction_history
               /\ twice.clients = clients
               /\ twice.transaction_history = transaction_history

\* --------------------------------------------------------------- C14
\* The example stream, amounts in units of 0.5: deposit(c=1,t=1,1.0),
\* deposit(c=2,t=2,2.0), deposit(c=1,t=3,2.0), withdrawal(c=1,t=4,1.5),
\* dispute(c=1,t=3).
ExampleStream ==
    << [transaction_type |-> "deposit", client_id |-> 1,
        transaction_id |-> 1, amount |-> 2],
       [transaction_type |-> "deposit", client_id |-> 2,
        transaction_id |-> 2, amount |-> 4],
       [transaction_type |-> "deposit", client_id |-> 1,
        transaction_id |-> 3, amount |-> 4],
       [transaction_type |-> "withdrawal", client_id |-> 1,
        transaction_id |-> 4, amount |-> 3],
       [transaction_type |-> "dispute", client_id |-> 1,
        transaction_id |-> 3, amount |-> 0] >>

ExampleClients == {ExampleStream[i].client_id : i \in DOMAIN ExampleStream}
ExampleTransactions ==
    {ExampleStream[i].transaction_id : i \in DOMAIN ExampleStream}

\* A client that is not in the example, and records of that client that
\* name none of the example's transactions.
Bystander == Len(ExampleStream) + 1
BystanderRecords ==
    [transaction_type : TransactionTypes,
     client_id : {Bystander},
     transaction_id : {Bystander + i : i \in TransactionIds},
     amount : Amounts]

\* How many records of the example have been handled.  They are handled in
\* order and each leaves its mark in the history: the deposits and the
\* withdrawal their entry, the final dispute the disputed flag.
ExamplePosition ==
    LET last == ExampleStream[Len(ExampleStream)].transaction_id
    IN  IF /\ last \in DOMAIN transaction_history
           /\ transaction_history[last].disputed
        THEN Len(ExampleStream)
        ELSE Cardinality(ExampleTransactions
                             \cap DOMAIN transaction_history)

\* One iteration on record t of a stream that has the example's records
\* in order and up to MaxRecords bystander records anywhere between them.
HandleInExample(t) ==
    /\ processed' = processed + 1
    /\ LET r == process_record(t, clients, transaction_history)
       IN  /\ clients' = r.clients
           /\ transaction_history' = r.transaction_history

\* The next record of the stream is the next one of the example.
ExampleRecord ==
    /\ ExamplePosition < Len(ExampleStream)
    /\ HandleInExample(ExampleStream[ExamplePosition + 1])

\* The next record of the stream is one of the bystander.
BystanderRecord ==
    /\ processed - ExamplePosition < MaxRecords
    /\ \E t \in BystanderRecords : HandleInExample(t)

ExampleNext ==
    \/ ExampleRecord
    \/ BystanderRecord

SpecExample == Init /\ [][ExampleNext]_vars

\* The example's records are all handled and its two accounts are a1 and
\* a2; records of a bystander in between add at most the bystander's
\* account, and without them there are exactly two accounts.
ExampleYields(a1, a2) ==
    ExamplePosition = Len(ExampleStream)
    => /\ clients[1] = a1
       /\ clients[2] = a2
       /\ DOMAIN clients \ {Bystander} = ExampleClients
       /\ processed = Len(ExampleStream) => DOMAIN clients = ExampleClients

\* C14 as stated: replaying the example stream from the empty state yields
\* exactly two accounts: account 1 with available 1.5, held 2.0, total 3.5,
\* not locked, and account 2 with available 2.0, held 0, total 2.0, not
\* locked (here in units of 0.5).
C14_ExampleAsStated ==
    ExampleYields([available |-> 3, held |-> 4, total |-> 7,
                   frozen |-> FALSE],
                  [available |-> 4, held |-> 0, total |-> 4,
                   frozen |-> FALSE])

\* C14 as the code has it: the dispute of transaction 3 takes its 2.0 out
\* of the 1.5 available, so account 1 ends with available -0.5, held 2.0,
\* total 1.5, not locked; account 2 is as stated.
C14_ExampleReplay ==
    ExampleYields([available |-> -1, held |-> 4, total |-> 3,
                   frozen |-> FALSE],
                  [available |-> 4, held |-> 0, total |-> 4,
                   frozen |-> FALSE])

\* The five records of the example have been handled and no other.
C14_Witness ==
    /\ ExamplePosition = Len(ExampleStream)
    /\ processed = Len(ExampleStream)
    /\ DOMAIN transaction_history = ExampleTransactions

\* --------------------------------------------------------------- C15
\* The diagnostics an iteration can end with.
Diagnostics ==
    {"none", "frozen account", "duplicate transaction", "not found",
     "client mismatch", "not disputed",
     "client mismatch in resolve_or_chargeback", "unknown type"}

\* C15: the engine never faults: in every reachable state, handling any
\* record reaches no unwrap of a missing history entry and yields a next
\* state.
C15_NeverFaults ==
    MoreRecords =>
    \A t \in Transaction :
        /\ ~record_panics(t, clients, transaction_history)
        /\ After(t).diagnostic \in Diagnostics

\* The history has an entry and lacks another; a dispute, resolve or
\* chargeback of the first reaches the unwraps and is applied, one of the
\* second stops at the unknown-id check.
C15_Witness ==
    \E t, u \in LifecycleRecords :
        /\ MoreRecords
        /\ ~IsFrozen(t)
        /\ IsRecorded(t)
        /\ After(t).diagnostic = "none"
        /\ ~IsFrozen(u)
        /\ ~IsRecorded(u)
        /\ After(u).diagnostic = "not found"

\* --------------------------------------------------------------- C16
\* The account of client c, or the one or_insert would create for it.
AccountOrNew(c) == IF c \in DOMAIN clients THEN clients[c] ELSE NewAccount

\* C16: a withdrawal with a fresh transaction_id on an unlocked or not yet
\* existing account is always applied, without a sufficient-funds check:
\* available and total each go down by the amount, also below zero, held
\* and locked stay, and a history entry with disputed = false is recorded.
C16_WithdrawalAlwaysApplied ==
    MoreRecords =>
    \A t \in RecordsOfType({"withdrawal"}) :
        (~IsRecorded(t) /\ ~IsFrozen(t))
        => LET after == After(t)
               before == AccountOrNew(t.client_id)
               account == after.clients[t.client_id]
           IN  /\ after.diagnostic = "none"
               /\ account.available = before.available - t.amount
               /\ account.total = before.total - t.amount
               /\ account.held = before.held
               /\ account.frozen = before.frozen
               /\ after.transaction_history[t.transaction_id]
                      = [client_id |-> t.client_id, amount |-> t.amount,
                         disputed |-> FALSE]

\* A withdrawal of more than the available funds of an existing, unlocked
\* account: available becomes negative.
C16_Witness ==
    \E t \in RecordsOfType({"withdrawal"}) :
        /\ MoreRecords
        /\ ~IsRecorded(t)
        /\ ~IsFrozen(t)
        /\ t.client_id \in DOMAIN clients
        /\ clients[t.client_id].available >= 0
        /\ t.amount > clients[t.client_id].available
        /\ After(t).clients[t.client_id].available < 0

\* --------------------------------------------------------------- C17
\* Record t is a dispute, resolve or chargeback that the engine applies:
\* the transaction is on record for t's client, whose account is not
\* locked, and for a resolve or chargeback it is disputed.
AppliedLifecycleRecord(t) ==
    /\ t.transaction_type \in {"dispute", "resolve", "chargeback"}
    /\ IsRecorded(t)
    /\ Recorded(t).client_id = t.client_id
    /\ ~IsFrozen(t)
    /\ t.transaction_type # "dispute" => Recorded(t).disputed

\* C17: an applied dispute and an applied resolve move the recorded amount
\* between available and held and leave total unchanged; an applied
\* chargeback leaves available unchanged and reduces held and total by
\* the recorded amount.
C17_LifecycleBalanceEffects ==
    MoreRecords =>
    \A t \in LifecycleRecords :
        AppliedLifecycleRecord(t)
        => LET before == AccountOrNew(t.client_id)
               account == After(t).clients[t.client_id]
               amount == Recorded(t).amount
           IN  CASE t.transaction_type = "dispute" ->
                        /\ account.available = before.available - amount
                        /\ account.held = before.held + amount
                        /\ account.total = before.total
                 [] t.transaction_type = "resolve" ->
                        /\ account.available = before.available + amount
                        /\ account.held = before.held - amount
                        /\ account.total = before.total
                 [] t.transaction_type = "chargeback" ->
                        /\ account.available = before.available
                        /\ account.held = before.held - amount
                        /\ account.total = before.total - amount

\* A chargeback of a disputed transaction with a non-zero amount on an
\* account that has funds available: total goes down, available stays.
C17_Witness ==
    \E t \in RecordsOfType({"chargeback"}) :
        /\ MoreRecords
        /\ AppliedLifecycleRecord(t)
        /\ Recorded(t).amount # 0
        /\ clients[t.client_id].available # 0
        /\ After(t).clients[t.client_id].total # clients[t.client_id].total
        /\ After(t).clients[t.client_id].available
               = clients[t.client_id].available

\* --------------------------------------------------------------- C18
\* The sum of the recorded amounts of the transactions in ids.
RECURSIVE SumOfAmounts(_)
SumOfAmounts(ids) ==
    IF ids = {}
    THEN 0
    ELSE LET id == CHOOSE x \in ids : TRUE
         IN  transaction_history[id].amount + SumOfAmounts(ids \ {id})

\* The transactions on record for client c that are disputed.
DisputedOf(c) ==
    {id \in DOMAIN transaction_history :
         /\ transaction_history[id].client_id = c
         /\ transaction_history[id].disputed}

\* C18: in every reachable state each account's held is the sum of the
\* recorded amounts of its transactions that are currently disputed; an
\* account with no disputed transaction has held = 0.
C18_HeldIsSumOfDisputed ==
    \A c \in DOMAIN clients :
        clients[c].held = SumOfAmounts(DisputedOf(c))

\* --------------------------------------------------------------- C19
\* C19: once an account is locked it stays locked, and the set of
\* transaction ids in the history and the set of account ids only grow:
\* no record unlocks an account or deletes an account or a transaction.
C19_LocksAndKeysPersist ==
    MoreRecords =>
    \A t \in Transaction :
        LET after == After(t)
        IN  /\ DOMAIN clients \subseteq DOMAIN after.clients
            /\ DOMAIN transaction_history
                   \subseteq DOMAIN after.transaction_history
            /\ \A c \in DOMAIN clients :
                   clients[c].frozen => after.clients[c].frozen

\* With one account locked, a deposit or withdrawal of another client is
\* applied: it adds an account and a transaction, and the locked account
\* and the recorded transactions are still there.
C19_Witness ==
    \E c \in DOMAIN clients :
        \E t \in DepositOrWithdrawalRecords :
            /\ MoreRecords
            /\ clients[c].frozen
            /\ t.client_id \notin DOMAIN clients
            /\ ~IsRecorded(t)
            /\ After(t).diagnostic = "none"
            /\ After(t).clients[c].frozen
            /\ DOMAIN After(t).clients = DOMAIN clients \cup {t.client_id}
            /\ DOMAIN After(t).transaction_history
                   = DOMAIN transaction_history \cup {t.transaction_id}

\* --------------------------------------------------------------- C20
\* Maps before and after agree on every key other than own: the same other
\* keys are present, with the same values.
SameExceptAt(before, after, own) ==
    /\ DOMAIN after \ {own} = DOMAIN before \ {own}
    /\ \A k \in DOMAIN before \ {own} : after[k] = before[k]

\* C20: one record changes at most the account of its own client_id and
\* at most the history entry of its own transaction_id; every other
\* account and every other entry is the same before and after.
C20_Frame ==
    MoreRecords =>
    \A t \in Transaction :
        LET after == After(t)
        IN  /\ SameExceptAt(clients, after.clients, t.client_id)
            /\ SameExceptAt(transaction_history, after.transaction_history,
                            t.transaction_id)

\* With another account and another transaction on record, a dispute
\* changes the account of its client and the entry of its transaction.
C20_Witness ==
    \E t \in DisputeRecords :
        /\ MoreRecords
        /\ DOMAIN clients \ {t.client_id} # {}
        /\ DOMAIN transaction_history \ {t.transaction_id} # {}
        /\ AppliedLifecycleRecord(t)
        /\ After(t).clients[t.client_id] # clients[t.client_id]
        /\ After(t).transaction_history[t.transaction_id] # Recorded(t)

====
